---- MODULE Spec2Model ----
(***************************************************************************)
(* Model of the auto-dom rendering engine of Leland-Kwong/evs:             *)
(*   - the expression evaluator of element.js (src/unnamed/part_002):      *)
(*     addToRefId, prepareArgs, applyProps, parseProps, processLisp,       *)
(*     validateSeedPath, createElement, renderWith;                        *)
(*   - the forced re-render of hooks.js: findParentVnode, forceUpdate.     *)
(*                                                                         *)
(* Strings are sequences of tokens.  The token alphabet is prefix-free, so *)
(* a token sequence stands for exactly one JavaScript string and template  *)
(* concatenation `${a}/${b}` is a \o <<"/">> \o b.                         *)
(*                                                                         *)
(* JavaScript objects whose identity matters (vnodes, evaluated arrays)    *)
(* live in `heap`; a reference is [t |-> "ref", id |-> n].                 *)
(***************************************************************************)
EXTENDS Naturals, Sequences, FiniteSets, TLC

VARIABLES
  dev,        \* process.env.NODE_ENV === 'development'
  cfgs,       \* render-context: RefId -> current config
  disp,       \* render-context: RefId -> current dispatcher
  tree,       \* vnode.js tree-value store: RefId -> value
  heap,       \* object store: id -> vnode / array
  env,        \* mutable state read by the stateful components
  registry,   \* hooks.js activeModels: subtree root -> key -> model
  atoms,      \* the models made by initModel: state and watchers
  hooks,      \* vnode.js: the destroy callbacks enqueued and not yet fired
  fns,        \* number of `update` closures made by useModel so far
  computed,   \* history: RefId -> final value of the latest invocation
  last,       \* history: what the latest operation did
  steps       \* history: number of operations so far

vars ==
  <<dev, cfgs, disp, tree, heap, env, registry, atoms, hooks, fns, computed, last,
    steps>>

\* Bound on the number of operations in one behaviour.
MaxSteps == 3
\* Bound on the values the mutable state takes.
MaxEnv == 1

\* the steps of a behaviour that uses models, and the largest model state
MaxHookSteps == 4

MaxModel == 2

(***************************************************************************)
(* constants.js, utils.js, value-types.js                                  *)
(***************************************************************************)
pathSeparator == "/"

newPath == <<"~newPath">>

specialProps ==
  {"children", "key", "shouldUpdate", "$$refId", "$$previousRefId"}

EmptyMap == [r \in {} |-> 0]

emptyProps == EmptyMap

Put(m, k, v) == [r \in DOMAIN m \cup {k} |-> IF r = k THEN v ELSE m[r]]

Digit(i) ==
  CASE i = 0 -> "0" [] i = 1 -> "1" [] i = 2 -> "2" [] i = 3 -> "3"
    [] i = 4 -> "4" [] i = 5 -> "5" [] i = 6 -> "6" [] i = 7 -> "7"
    [] i = 8 -> "8" [] OTHER -> "9"

\* String(n) for a non-negative integer n
RECURSIVE Str(_)
Str(n) == IF n < 10 THEN <<Digit(n)>> ELSE Str(n \div 10) \o <<Digit(n % 10)>>

(***************************************************************************)
(* Values handed to the evaluator.                                         *)
(***************************************************************************)
Prim(s) == [t |-> "prim", v |-> s]
Nil == [t |-> "nil"]
Undef == [t |-> "undef"]
List(items) == [t |-> "list", items |-> items]
\* [f, cfg?, ...args]: cfg is <<>> when value[1] is no plain object
Expr(f, cfg, args) == [t |-> "expr", f |-> f, cfg |-> cfg, args |-> args]
Ref(n) == [t |-> "ref", id |-> n]

IsRef(v) == v.t = "ref"

\* element factories made by defineElement: type === valueTypes.domComponent
nativeElements == {"div", "span"}

isArray(h, v) == IsRef(v) /\ h[v.id].kind = "array"

\* isType(value, valueTypes.vnode): value.type === vnode; `type` is a property
\* like any other, `kind` is what the object was made as
isVnode(h, v) ==
  IsRef(v) /\ "type" \in DOMAIN h[v.id] /\ h[v.id].type = "vnode"

(***************************************************************************)
(* vnode.js                                                                *)
(***************************************************************************)
createVnode(tagName, config) ==
  [kind |-> "vnode", type |-> "vnode", sel |-> tagName, props |-> config.props,
   key |-> <<config.key>>, refId |-> <<config.props["$$refId"]>>,
   text |-> <<>>]

createTextVnode(value) ==
  [kind |-> "vnode", type |-> "vnode", sel |-> "#text", props |-> emptyProps,
   key |-> <<>>, refId |-> <<>>, text |-> <<value>>]

\* String(value) of an ignored value: 'null' or 'undefined'
StringOfIgnored(value) == IF value.t = "nil" THEN "null" ELSE "undefined"

\* createVnode('!', {props: emptyProps, children: String(value)})
createCommentVnode(value) ==
  [kind |-> "vnode", type |-> "vnode", sel |-> "!", props |-> emptyProps,
   key |-> <<>>, refId |-> <<>>, text |-> <<StringOfIgnored(value)>>]

ArrayObj(items) == [kind |-> "array", items |-> items]

hasTreeValue(st, refId) == refId \in DOMAIN st.tree

getTreeValue(st, refId) ==
  IF refId \in DOMAIN st.tree THEN st.tree[refId] ELSE Undef

setTreeValue(st, refId, value) == [st EXCEPT !.tree = Put(@, refId, value)]

\* onPathValue is setTreeValue or identity
onPathValue(opv, st, refId, value) ==
  IF opv = "setTreeValue" THEN setTreeValue(st, refId, value) ELSE st

\* snabbdom's patch returns the vnode it committed
patch(fromNode, toNode) == toNode

Alloc(st, obj) == [st EXCEPT !.heap = Append(@, obj)]

NewRef(st) == Ref(Len(st.heap) + 1)

Raise(st, e) == [st EXCEPT !.err = e]

\* history: the position in the input tree the evaluator is at
Push(st, i) == [st EXCEPT !.pos = Append(@, i)]

Pop(r) == [r EXCEPT !.st.pos = SubSeq(@, 1, Len(@) - 1)]

(***************************************************************************)
(* render-context.js                                                       *)
(***************************************************************************)
hasCurrentConfig(st, refId) == refId \in DOMAIN st.cfgs

setCurrentConfig(st, refId, config) == [st EXCEPT !.cfgs = Put(@, refId, config)]

setCurrentDispatcher(st, refId, f) == [st EXCEPT !.disp = Put(@, refId, f)]

(***************************************************************************)
(* element.js                                                              *)
(***************************************************************************)
\* keyRegex = /^[a-zA-Z0-9-_/]*$/ over the token alphabet
keyRegexTest(key) == \A i \in 1..Len(key) : key[i] \notin {"@item", "@fn", "~newPath"}

\* validateKey: TRUE when it throws
validateKeyThrows(key) ==
  /\ dev
  /\ key # <<>>
  /\ ~keyRegexTest(key[1])

\* addToRefId that starts a new path at every location
addToRefIdAsNewPath(currentPath, location) == location

addToRefId(currentPath, location) ==
  IF currentPath = newPath
    THEN location
    ELSE currentPath \o <<pathSeparator>> \o location

getPropsFromArgs(value) == IF value.cfg # <<>> THEN value.cfg[1] ELSE emptyProps

applyProps(configProps, props) ==
  LET keep == {k \in DOMAIN props : k \notin specialProps}
  IN  [k \in DOMAIN configProps \cup keep |->
         IF k \in keep THEN props[k] ELSE configProps[k]]

\* the predicates the callers pass as `shouldUpdate`
PropX(p) == IF "x" \in DOMAIN p THEN <<p["x"]>> ELSE <<>>

shouldUpdateFn(name, oProps, nProps) ==
  CASE name = "eqX" -> PropX(oProps) = PropX(nProps)
    [] name = "neqX" -> PropX(oProps) # PropX(nProps)
    [] name = "never" -> FALSE
    [] OTHER -> TRUE

alwaysTrue == "alwaysTrue"

\* returnsCurrentConfig with the sense of the predicate inverted
returnsCurrentConfigInverted(hasConfig, shouldUpdate, oProps, nProps) ==
  hasConfig /\ shouldUpdateFn(shouldUpdate, oProps, nProps)

\* lines 194-202: TRUE when parseProps returns the current config
returnsCurrentConfig(hasConfig, shouldUpdate, oProps, nProps) ==
  hasConfig /\ ~shouldUpdateFn(shouldUpdate, oProps, nProps)

(***************************************************************************)
(* The component functions of the callers (examples/prototype.ldom.js      *)
(* style).  Each returns a further value to evaluate.                      *)
(***************************************************************************)
Components ==
  {"A", "B", "C", "Echo", "Counter", "FragA", "FragT", "FragU", "Box",
   "Wrapper", "Inner", "Fragment", "Stateful", "Late", "Keeper", "SelfMut",
   "FragV", "Outer"}

\* the key each stateful component passes to useModel
ModelKey(f) ==
  CASE f = "Keeper" -> <<"keep">>
    [] f = "SelfMut" -> <<"self">>
    [] OTHER -> <<"k">>

\* the initialModel each stateful component passes to useModel: a value, or a
\* zero-argument producer of the value
InitialModel(f) ==
  CASE f = "Stateful" -> [func |-> TRUE, v |-> 0]
    [] f = "Late" -> [func |-> FALSE, v |-> 1]
    [] OTHER -> [func |-> FALSE, v |-> 0]

\* the options each stateful component passes to useModel; shouldCleanup is
\* named by the value it returns
OptionsOf(f) ==
  IF f = "Keeper" THEN [shouldCleanup |-> FALSE] ELSE [shouldCleanup |-> TRUE]

\* the path prefix up to the first path separator
PathRoot(path) ==
  IF \E i \in 1..Len(path) : path[i] = pathSeparator
    THEN SubSeq(path, 1, (CHOOSE i \in 1..Len(path) :
                            /\ path[i] = pathSeparator
                            /\ \A j \in 1..(i - 1) : path[j] # pathSeparator) - 1)
    ELSE path

\* model.state of the model that the latest useModel call of the component
\* at this RefId returned
ModelState(f, props, st) ==
  st.atoms[st.log[CHOOSE i \in 1..Len(st.log) :
                    /\ st.log[i].e = "useModel"
                    /\ st.log[i].refId = props["$$refId"]
                    /\ \A j \in (i + 1)..Len(st.log) :
                         ~(st.log[j].e = "useModel"
                             /\ st.log[j].refId = props["$$refId"])].model].state

SpanOf(s) == Expr("span", <<>>, <<Prim(s)>>)

Invoke(f, props, st) ==
  CASE f = "A" -> SpanOf("a")
    [] f = "B" -> SpanOf("b")
    [] f = "C" -> SpanOf("c")
    [] f = "Echo" -> SpanOf(IF "x" \in DOMAIN props THEN props["x"] ELSE "none")
    [] f = "Counter" -> SpanOf(Digit(st.env))
    [] f = "FragA" -> List(<<SpanOf(Digit(st.env)), SpanOf("b")>>)
    [] f = "FragT" -> List(<<Prim(Digit(st.env)), Prim("t")>>)
    [] f = "FragU" -> List(<<Prim("u"), Prim("v")>>)
    [] f = "FragV" -> List(IF st.env = 0 THEN <<SpanOf("u"), SpanOf("v")>>
                                         ELSE <<SpanOf("u")>>)
    [] f = "Box" -> Expr("span", <<>>, <<List(props["children"])>>)
    [] f = "Wrapper" -> Expr("Inner", <<emptyProps>>, <<>>)
    [] f = "Inner" -> Expr("div", <<>>, <<>>)
    [] f = "Outer" -> Expr("div", <<>>, <<Expr("Counter", <<>>, <<>>)>>)
    [] f \in {"Stateful", "Late", "Keeper", "SelfMut"} ->
         SpanOf(Digit(ModelState(f, props, st)))
    [] OTHER -> List(props["children"])

RECURSIVE processLisp(_, _, _, _, _, _)
RECURSIVE prepareArgs(_, _, _, _, _, _, _)
RECURSIVE appendArg(_, _, _, _, _, _, _)
RECURSIVE mapItems(_, _, _, _, _, _)
RECURSIVE appendItem(_, _, _, _, _, _)
RECURSIVE parseProps(_, _, _, _, _, _, _)
RECURSIVE parsePropsAt(_, _, _, _, _, _, _)
RECURSIVE evalExpr(_, _, _)
RECURSIVE invokeHead(_, _, _, _, _)
RECURSIVE invokeBody(_, _, _, _, _)
RECURSIVE runHooks(_, _, _)

\* lines 106-109: args[i] = evaluated; i += 1
appendArg(args, isVnodeFn, path, prevCtor, opv, acc, r) ==
  prepareArgs(args, isVnodeFn, path, prevCtor, opv, Append(acc, r.v), r.st)

\* lines 89-113; `isVnodeFn` selects callback = processLisp or identity
prepareArgs(args, isVnodeFn, path, prevCtor, opv, acc, st) ==
  IF Len(acc) >= Len(args) \/ st.err # <<>>
    THEN [vals |-> acc, st |-> st]
    ELSE appendArg(args, isVnodeFn, path, prevCtor, opv, acc,
                   IF isVnodeFn
                     THEN Pop(processLisp(args[Len(acc) + 1], path, Str(Len(acc)),
                                          prevCtor, opv, Push(st, Str(Len(acc)))))
                     ELSE [v |-> args[Len(acc) + 1], st |-> st])

\* resolveRefId that tells a first evaluation from a later one
resolveRefIdByGeneration(props, path, prevKey) ==
  IF "$$previousRefId" \in DOMAIN props
    THEN props["$$previousRefId"]
    ELSE addToRefId(IF cfgs = EmptyMap THEN path ELSE addToRefId(path, <<"2">>),
                    IF "key" \in DOMAIN props THEN props["key"] ELSE prevKey)

\* resolveRefId that names every element by the key passed down to it
resolveRefIdByPrevKey(props, path, prevKey) ==
  IF "$$previousRefId" \in DOMAIN props
    THEN props["$$previousRefId"]
    ELSE addToRefId(path, prevKey)

\* lines 174-180
resolveRefId(props, path, prevKey) ==
  IF "$$previousRefId" \in DOMAIN props
    THEN props["$$previousRefId"]
    ELSE addToRefId(path, IF "key" \in DOMAIN props THEN props["key"] ELSE prevKey)

\* lines 186-204: `a` is what prepareArgs returned
configFor(props, refId, ctor, a) ==
  LET nProps == applyProps(("$$refId" :> refId) @@ ("children" :> a.vals), props)
      hasConfig == hasCurrentConfig(a.st, refId)
      oProps == IF hasConfig THEN a.st.cfgs[refId].props ELSE emptyProps
      shouldUpdate == IF "shouldUpdate" \in DOMAIN props
                        THEN props["shouldUpdate"] ELSE alwaysTrue
      memo == returnsCurrentConfig(hasConfig, shouldUpdate, oProps, nProps)
  IN  [config |-> IF memo THEN a.st.cfgs[refId]
                  ELSE [props |-> nProps, key |-> refId, ctor |-> ctor],
       isCurrent |-> memo,
       st |-> a.st,
       refId |-> refId, hasConfig |-> hasConfig, shouldUpdate |-> shouldUpdate,
       oProps |-> oProps, nProps |-> nProps]

\* lines 181-204
parsePropsAt(props, refId, value, isVnodeFn, ctor, opv, st) ==
  configFor(props, refId, ctor,
            prepareArgs(value.args, isVnodeFn, refId, ctor, opv, <<>>, st))

\* lines 162-205
parseProps(value, isVnodeFn, path, prevKey, ctor, opv, st) ==
  IF validateKeyThrows(IF "key" \in DOMAIN getPropsFromArgs(value)
                         THEN <<getPropsFromArgs(value)["key"]>> ELSE <<>>)
    THEN [config |-> [props |-> emptyProps], isCurrent |-> FALSE,
          st |-> Raise(st, <<"InvalidKey">>)]
    ELSE parsePropsAt(getPropsFromArgs(value),
                      resolveRefId(getPropsFromArgs(value), path, prevKey),
                      value, isVnodeFn, ctor, opv, st)

\* lines 260-264
appendItem(items, nextPath, prevCtor, opv, acc, r) ==
  mapItems(items, nextPath, prevCtor, opv, Append(acc, r.v), r.st)

\* lines 253-265: value.map over the elements
mapItems(items, nextPath, prevCtor, opv, acc, st) ==
  IF Len(acc) >= Len(items) \/ st.err # <<>>
    THEN [vals |-> acc, st |-> st]
    ELSE appendItem(items, nextPath, prevCtor, opv, acc,
                    Pop(processLisp(items[Len(acc) + 1], nextPath, Str(Len(acc)),
                                    prevCtor, opv, Push(st, Str(Len(acc))))))

\* the array that value.map returns
arrayOf(m) ==
  IF m.st.err # <<>> THEN [v |-> Undef, st |-> m.st]
  ELSE [v |-> NewRef(m.st), st |-> Alloc(m.st, ArrayObj(m.vals))]

EvalEvent(pp, f, called, ret) ==
  [e |-> "eval", refId |-> pp.refId, f |-> f, called |-> called, args |-> pp.args,
   pos |-> pp.st.pos,
   prev |-> IF pp.refId \in DOMAIN pp.st.computed
              THEN <<pp.st.computed[pp.refId]>> ELSE <<>>,
   hasConfig |-> pp.hasConfig, shouldUpdate |-> pp.shouldUpdate,
   oProps |-> pp.oProps, nProps |-> pp.nProps, ret |-> ret]

Logged(st, ev) == [st EXCEPT !.log = Append(@, ev)]

\* lines 294-295
isMemoized(pp) ==
  /\ pp.isCurrent
  /\ pp.st.cfgs[pp.config.props["$$refId"]] = pp.config

\* memoized that records the props of the skipped evaluation for its RefId
memoizedRecordsProps(pp, f, treeValue) ==
  [v |-> treeValue,
   st |-> Logged(setCurrentConfig(pp.st, pp.refId,
                                  [pp.config EXCEPT !.props = pp.nProps]),
                 EvalEvent(pp, f, FALSE, treeValue))]

\* line 298
memoized(pp, f, treeValue) ==
  [v |-> treeValue, st |-> Logged(pp.st, EvalEvent(pp, f, FALSE, treeValue))]

\* lines 307-308
recordConfig(st, refId, config, f) ==
  setCurrentDispatcher(setCurrentConfig(st, refId, config), refId, f)

\* line 319
completed(opv, refId, r) ==
  IF r.st.err # <<>> THEN r
  ELSE [v |-> r.v,
        st |-> [onPathValue(opv, r.st, refId, r.v)
                  EXCEPT !.computed = Put(@, refId, r.v),
                         !.log = Append(@, [e |-> "done", refId |-> refId,
                                            v |-> r.v, pos |-> r.st.pos])]]

\* line 310: what the head function finds recorded for its RefId when it is
\* called (history)
Invoked(f, config, refId, st) ==
  Logged(st, [e |-> "invoke", refId |-> refId, f |-> f, input |-> config.props,
              pos |-> st.pos,
              cfg |-> IF hasCurrentConfig(st, refId) THEN <<st.cfgs[refId]>> ELSE <<>>,
              disp |-> IF refId \in DOMAIN st.disp THEN <<st.disp[refId]>> ELSE <<>>])

\* lines 310-317: `hst` is the state the hooks called by f leave
invokeBody(f, config, refId, opv, hst) ==
  Pop(processLisp(Invoke(f, config.props, hst), refId, <<"@fn">>, f, opv,
                  Push(hst, <<"fn">>)))

\* invokeHead that reports the value of a component before evaluating its body
invokeHeadReportsFirst(f, config, refId, opv, st) ==
  IF f \in nativeElements
    THEN completed(opv, refId,
                   [v |-> NewRef(st), st |-> Alloc(st, createVnode(f, config))])
    ELSE invokeBody(f, config, refId, opv,
                    runHooks(f, config.props,
                             completed(opv, refId, [v |-> Undef, st |-> st]).st))

\* lines 310-320
invokeHead(f, config, refId, opv, st) ==
  completed(opv, refId,
            IF f \in nativeElements
              THEN [v |-> NewRef(st),
                    st |-> Alloc(Invoked(f, config, refId, st), createVnode(f, config))]
              ELSE invokeBody(f, config, refId, opv,
                              runHooks(f, config.props, Invoked(f, config, refId, st))))

\* evalExpr that invokes the head before anything is recorded for its RefId
evalExprRecordsNothing(f, opv, pp) ==
  IF pp.st.err # <<>> THEN [v |-> Undef, st |-> pp.st]
  ELSE IF isMemoized(pp)
    THEN memoized(pp, f, getTreeValue(pp.st, pp.config.props["$$refId"]))
  ELSE invokeHead(f, pp.config, pp.config.props["$$refId"], opv,
                  Logged(pp.st, EvalEvent(pp, f, TRUE, Undef)))

\* lines 290-320: `pp` is what parseProps returned
evalExpr(f, opv, pp) ==
  IF pp.st.err # <<>> THEN [v |-> Undef, st |-> pp.st]
  ELSE IF isMemoized(pp)
    THEN memoized(pp, f, getTreeValue(pp.st, pp.config.props["$$refId"]))
  ELSE invokeHead(f, pp.config, pp.config.props["$$refId"], opv,
                  Logged(recordConfig(pp.st, pp.config.props["$$refId"],
                                      pp.config, f),
                         EvalEvent(pp, f, TRUE, Undef)))

\* lines 286-289: the config, with the positional arguments it was parsed from
\* (history)
parsedFrom(value, pp) == pp @@ [args |-> value.args]

\* lines 221-321
processLisp(value, path, prevKey, prevCtor, opv, st) ==
  IF st.err # <<>> THEN [v |-> Undef, st |-> st]
  ELSE IF value.t = "prim"
    THEN [v |-> NewRef(st), st |-> Alloc(st, createTextVnode(value.v))]
  ELSE IF value.t \in {"nil", "undef"}
    THEN [v |-> NewRef(st), st |-> Alloc(st, createCommentVnode(value))]
  ELSE IF value.t = "list"
    THEN arrayOf(mapItems(value.items, addToRefId(path, <<"@item">>),
                          prevCtor, opv, <<>>, st))
  ELSE IF isArray(st.heap, value)
    THEN arrayOf(mapItems(st.heap[value.id].items, addToRefId(path, <<"@item">>),
                          prevCtor, opv, <<>>, st))
  ELSE IF value.t = "ref"
    THEN [v |-> value, st |-> st]
  ELSE evalExpr(value.f, opv,
                parsedFrom(value,
                           parseProps(value, value.f \in nativeElements, path,
                                      prevKey, value.f, opv, st)))

\* the seedPath of a call made without one: undefined
NoSeed == <<"~undefined">>

\* String(seedPath)
String(seedPath) == IF seedPath = NoSeed THEN <<"undefined">> ELSE seedPath

\* validateSeedPath that does not look the seed up in the tree-value store
validateSeedPathIgnoresStore(st, seedPath) ==
  seedPath = NoSeed \/ validateKeyThrows(<<seedPath>>)

\* lines 323-338: TRUE when validateSeedPath throws
validateSeedPathThrows(st, seedPath) ==
  /\ ~hasTreeValue(st, seedPath)
  /\ seedPath = NoSeed \/ validateKeyThrows(<<seedPath>>)

\* lines 345-367
createElement(value, seedPath, opv, st) ==
  IF st.err # <<>> THEN [v |-> Undef, st |-> st]
  ELSE IF dev /\ validateSeedPathThrows(st, seedPath)
    THEN [v |-> Undef, st |-> Raise(st, <<"InvalidSeedPath">>)]
  ELSE IF isVnode(st.heap, value)
    THEN [v |-> value, st |-> st]
  ELSE processLisp(value, newPath, String(seedPath), "undefined", opv, st)

\* line 425
patched(fromNode, toNode) == [v |-> patch(fromNode, toNode.v), st |-> toNode.st]

\* lines 414-426
renderWith(fromNode, component, seedPath, opv, st) ==
  patched(fromNode, createElement(component, seedPath, opv, st))

(***************************************************************************)
(* hooks.js                                                                *)
(***************************************************************************)
HasSep(path) == \E i \in 1..Len(path) : path[i] = pathSeparator

LastSep(path) ==
  CHOOSE i \in 1..Len(path) :
    /\ path[i] = pathSeparator
    /\ \A j \in (i + 1)..Len(path) : path[j] # pathSeparator

\* lines 48-66: the paths tried are the joins of the prefixes of pathArray
RECURSIVE findParentVnode(_, _)
findParentVnode(st, path) ==
  IF isVnode(st.heap, getTreeValue(st, path)) THEN getTreeValue(st, path)
  ELSE IF ~HasSep(path) THEN Undef
  ELSE findParentVnode(st, SubSeq(path, 1, LastSep(path) - 1))

Max(a, b) == IF a >= b THEN a ELSE b

\* line 100: Object.assign(target, source) on two heap objects
ObjectAssign(target, source) ==
  [k \in DOMAIN target \cup DOMAIN source |->
     IF k = "kind" THEN target.kind
     ELSE IF k = "items" /\ k \in DOMAIN target /\ k \in DOMAIN source
       THEN [i \in 1..Max(Len(target.items), Len(source.items)) |->
               IF i <= Len(source.items) THEN source.items[i]
               ELSE target.items[i]]
     ELSE IF k \in DOMAIN source THEN source[k]
     ELSE target[k]]

updateSourceValue(st, target, source) ==
  IF st.err # <<>> THEN st
  ELSE IF ~IsRef(target) THEN Raise(st, <<"TypeError">>)
  ELSE IF ~IsRef(source) THEN st
  ELSE [st EXCEPT !.heap[target.id] = ObjectAssign(@, st.heap[source.id])]

\* arr[0].refId: <<"TypeError">> when arr[0] is undefined
FirstRefId(h, arr) ==
  IF Len(h[arr.id].items) = 0 \/ ~IsRef(h[arr.id].items[1])
    THEN <<"TypeError">>
    ELSE IF "refId" \in DOMAIN h[h[arr.id].items[1].id]
      THEN <<"ok", h[h[arr.id].items[1].id].refId>>
      ELSE <<"ok", <<>>>>

\* lines 154-155
isCurrentFragment(h, ch, currentValue) ==
  FirstRefId(h, ch)[2] = FirstRefId(h, currentValue)[2]

RECURSIVE processChildren(_, _, _, _, _)
RECURSIVE nestedChildren(_, _, _, _, _)

\* lines 162-168: ch.map(processChildren); `m` is the mapped nested fragment
nestedChildren(chs, currentValue, nextValue, acc, m) ==
  IF m.st.err # <<>> THEN [vals |-> acc, st |-> m.st]
  ELSE processChildren(chs, currentValue, nextValue, Append(acc, NewRef(m.st)),
                       Alloc(m.st, ArrayObj(m.vals)))

\* lines 152-171: chs.map(processChildren)
processChildren(chs, currentValue, nextValue, acc, st) ==
  IF Len(acc) >= Len(chs) \/ st.err # <<>>
    THEN [vals |-> acc, st |-> st]
  ELSE IF ~isArray(st.heap, chs[Len(acc) + 1])
    THEN processChildren(chs, currentValue, nextValue,
                         Append(acc, chs[Len(acc) + 1]), st)
  ELSE IF FirstRefId(st.heap, chs[Len(acc) + 1])[1] # "ok"
          \/ FirstRefId(st.heap, currentValue)[1] # "ok"
    THEN [vals |-> acc, st |-> Raise(st, <<"TypeError">>)]
  ELSE IF isCurrentFragment(st.heap, chs[Len(acc) + 1], currentValue)
    THEN processChildren(chs, currentValue, nextValue, Append(acc, nextValue),
                         updateSourceValue(st, currentValue, nextValue))
  ELSE nestedChildren(chs, currentValue, nextValue, acc,
                      processChildren(st.heap[chs[Len(acc) + 1].id].items,
                                      currentValue, nextValue, <<>>, st))

\* lines 109-116
currentPropsOf(config) ==
  ("$$previousRefId" :> config.props["$$refId"])
    @@ ("shouldUpdate" :> alwaysTrue)
    @@ [k \in DOMAIN config.props \ {"$$refId"} |-> config.props[k]]

\* `nextValue` is the local of that name, not what forceUpdate returns
ForceResult(nextValue, parent, oChildren, st) ==
  [nextValue |-> nextValue, parent |-> parent, oChildren |-> oChildren, st |-> st]

\* line 134; `nextValue` is what renderWith returned
sourceUpdated(currentValue, nextValue) ==
  ForceResult(nextValue.v, Undef, <<>>,
              updateSourceValue(nextValue.st, currentValue, nextValue.v))

\* lines 127-136
forceUpdateNode(refId, component, currentValue, st) ==
  sourceUpdated(currentValue,
                renderWith(currentValue, component, refId,
                           IF ~HasSep(refId) THEN "setTreeValue" ELSE "identity",
                           st))

\* lines 200-204; `r` is what renderWith returned
parentUpdated(parentVnode, nextParentVnode, oChildren, nextValue, r) ==
  ForceResult(nextValue, parentVnode, oChildren,
              updateSourceValue(r.st, parentVnode, nextParentVnode))

\* lines 180-204; `newChildren` is what oChildren.map(processChildren) returned
parentRendered(parentVnode, oChildren, nextValue, newChildren) ==
  IF newChildren.st.err # <<>>
    THEN ForceResult(nextValue, parentVnode, oChildren, newChildren.st)
    ELSE parentUpdated(
           parentVnode, NewRef(newChildren.st), oChildren, nextValue,
           renderWith(parentVnode, NewRef(newChildren.st),
                      newChildren.st.heap[parentVnode.id].props["$$refId"],
                      "identity",
                      Alloc(newChildren.st,
                            [newChildren.st.heap[parentVnode.id] EXCEPT
                               !.props = Put(@, "children", newChildren.vals)])))

\* lines 145-171; `nextValue` is what createElement returned
childrenReplaced(parentVnode, oChildren, currentValue, nextValue) ==
  parentRendered(parentVnode, oChildren, nextValue.v,
                 processChildren(oChildren, currentValue, nextValue.v, <<>>,
                                 nextValue.st))

\* lines 143-204
forceUpdateFragment(refId, component, currentValue, parentVnode, st) ==
  IF ~IsRef(parentVnode)
    THEN ForceResult(Undef, Undef, <<>>, Raise(st, <<"TypeError">>))
    ELSE childrenReplaced(parentVnode, st.heap[parentVnode.id].props["children"],
                          currentValue,
                          createElement(component, refId, "identity", st))

\* lines 108-205
forceUpdate(refId, st) ==
  IF ~hasCurrentConfig(st, refId)
    THEN ForceResult(Undef, Undef, <<>>, Raise(st, <<"TypeError">>))
  ELSE IF ~isArray(st.heap, getTreeValue(st, refId))
    THEN forceUpdateNode(refId,
                         Expr(st.disp[refId], <<currentPropsOf(st.cfgs[refId])>>, <<>>),
                         getTreeValue(st, refId), st)
  ELSE forceUpdateFragment(refId,
                           Expr(st.disp[refId], <<currentPropsOf(st.cfgs[refId])>>, <<>>),
                           getTreeValue(st, refId),
                           findParentVnode(st, refId), st)

(***************************************************************************)
(* hooks.js: the models.  A model is an atom of the reactive primitive:    *)
(* a state and a map from watcher id to callback, in insertion order.      *)
(* A callback is the `update` closure of one useModel call, named by its   *)
(* serial number.                                                          *)
(***************************************************************************)
\* getPathRoot that puts every path under one root
getPathRootShared(path) == <<>>

\* lines 29-34
getPathRoot(path) == PathRoot(path)

\* lines 38-41: <<>> is undefined
getScopedModels(st, path) ==
  IF getPathRoot(path) \in DOMAIN st.registry
    THEN <<st.registry[getPathRoot(path)]>> ELSE <<>>

\* lines 43-46
setupScopedModels(st, path) ==
  [st EXCEPT !.registry = Put(@, getPathRoot(path), EmptyMap)]

\* atom(value)
atom(value) == [state |-> value, watchersList |-> <<>>]

\* model.watchersList.get(id): <<>> is undefined
watcherOf(model, id) ==
  IF \E i \in 1..Len(model.watchersList) : model.watchersList[i].id = id
    THEN <<(CHOOSE w \in {model.watchersList[i] : i \in 1..Len(model.watchersList)} :
              w.id = id).fn>>
    ELSE <<>>

\* addWatch that keeps the callbacks registered before under the same id
addWatchAppends(model, id, fn) ==
  [model EXCEPT !.watchersList = Append(@, [id |-> id, fn |-> fn])]

\* addWatch(model, id, fn)
addWatch(model, id, fn) ==
  IF watcherOf(model, id) = <<>>
    THEN [model EXCEPT !.watchersList = Append(@, [id |-> id, fn |-> fn])]
    ELSE [model EXCEPT !.watchersList =
            [i \in 1..Len(@) |-> IF @[i].id = id THEN [id |-> id, fn |-> fn]
                                 ELSE @[i]]]

\* removeWatch that leaves the callback registered
removeWatchSkipped(model, id) == model

NotWatcher(id, w) == w.id # id

\* removeWatch(model, id)
removeWatch(model, id) ==
  [model EXCEPT !.watchersList = SelectSeq(@, LAMBDA w : NotWatcher(id, w))]

\* enqueueHook(refId, cleanupOnDestroy, args)
enqueueHook(st, refId, args) ==
  [st EXCEPT !.hooks = @ \cup {[refId |-> refId, key |-> args.key,
                                 shouldCleanup |-> args.shouldCleanup,
                                 watcherFn |-> args.watcherFn, fired |-> FALSE]}]

\* lines 207-212: initialModel is a value or a zero-argument producer of one
initModel(initialModel, st) ==
  [st EXCEPT !.atoms = Append(@, atom(initialModel.v)),
             !.log = Append(@, [e |-> "initModel", func |-> initialModel.func,
                                v |-> initialModel.v])]

\* the model of a useModel call that never looks the key up
modelOfFresh(scopedModels, key, st) == Len(st.atoms) + 1

\* lines 233-234: scopedModels.get(key) || initModel(im); the model that
\* initModel makes is the next atom
modelOf(scopedModels, key, st) ==
  IF key \in DOMAIN scopedModels THEN scopedModels[key] ELSE Len(st.atoms) + 1

\* modelWatched that adds a watcher at every call instead of replacing the one
\* registered under refId
modelWatchedAdding(refId, key, options, model, created, st) ==
  [model |-> model,
   st |-> [enqueueHook(st, refId,
                       [key |-> key, shouldCleanup |-> options.shouldCleanup,
                        watcherFn |-> st.fns + 1])
             EXCEPT !.registry[getPathRoot(refId)] = Put(@, key, model),
                    !.atoms[model] = addWatchAppends(@, refId, st.fns + 1),
                    !.fns = @ + 1,
                    !.log = Append(@, [e |-> "useModel", refId |-> refId,
                                       key |-> key, model |-> model,
                                       created |-> created,
                                       state |-> st.atoms[model].state,
                                       fn |-> st.fns + 1])]]

\* lines 235-246: `st` is the state after line 234
modelWatched(refId, key, options, model, created, st) ==
  [model |-> model,
   st |-> [enqueueHook(st, refId,
                       [key |-> key, shouldCleanup |-> options.shouldCleanup,
                        watcherFn |-> st.fns + 1])
             EXCEPT !.registry[getPathRoot(refId)] = Put(@, key, model),
                    !.atoms[model] = addWatch(@, refId, st.fns + 1),
                    !.fns = @ + 1,
                    !.log = Append(@, [e |-> "useModel", refId |-> refId,
                                       key |-> key, model |-> model,
                                       created |-> created,
                                       state |-> st.atoms[model].state,
                                       fn |-> st.fns + 1])]]

\* lines 233-246: `model` is the model line 233 settles on
modelUsed(refId, key, im, options, model, st) ==
  IF model <= Len(st.atoms)
    THEN modelWatched(refId, key, options, model, FALSE, st)
    ELSE modelWatched(refId, key, options, model, TRUE, initModel(im, st))

\* lines 219-247
RECURSIVE useModel(_, _, _, _, _)
useModel(refId, key, initialModel, options, st) ==
  IF getScopedModels(st, refId) = <<>>
    THEN useModel(refId, key, initialModel, options, setupScopedModels(st, refId))
    ELSE modelUsed(refId, key, initialModel, options,
                   modelOf(getScopedModels(st, refId)[1], key, st), st)

\* lines 238-239: update = () => forceUpdate(refId), run for mutation `mut`
update(refId, mut, st) ==
  forceUpdate(refId, Logged(st, [e |-> "update", refId |-> refId, mut |-> mut])).st

\* the callbacks of a model run one after another, in insertion order
RECURSIVE runWatchers(_, _, _, _)
runWatchers(ws, i, mut, st) ==
  IF i > Len(ws) \/ st.err # <<>> THEN st
  ELSE runWatchers(ws, i + 1, mut, update(ws[i].id, mut, st))

\* swap(model, ...): the state changes, then every callback runs
swap(model, value, st) ==
  runWatchers(st.atoms[model].watchersList, 1, st.muts + 1,
              [st EXCEPT !.atoms[model].state = value,
                         !.muts = @ + 1,
                         !.log = Append(@, [e |-> "swap", model |-> model,
                                            value |-> value,
                                            mut |-> st.muts + 1,
                                            watchers |-> st.atoms[model].watchersList])])

\* cleanupOnDestroy without the comparison of lines 80-85
cleanupUnguarded(currentWatcher, watcherFn) == FALSE

\* lines 80-81
isWatcherReplaced(currentWatcher, watcherFn) == currentWatcher # <<watcherFn>>

\* lines 87-91
cleaned(refId, args, model, st) ==
  [st EXCEPT !.atoms[model] = removeWatch(@, refId),
             !.registry[getPathRoot(refId)] =
               IF args.shouldCleanup
                 THEN [k \in DOMAIN @ \ {args.key} |-> @[k]] ELSE @]

\* lines 68-98: model.watchersList of an undefined model is a TypeError
cleanupOnDestroy(type, refId, args, st) ==
  IF getScopedModels(st, refId) = <<>> THEN Raise(st, <<"TypeError">>)
  ELSE IF type # "destroy" THEN st
  ELSE IF args.key \notin DOMAIN getScopedModels(st, refId)[1]
    THEN Raise(st, <<"TypeError">>)
  ELSE IF isWatcherReplaced(
            watcherOf(st.atoms[getScopedModels(st, refId)[1][args.key]], refId),
            args.watcherFn)
    THEN st
  ELSE cleaned(refId, args, getScopedModels(st, refId)[1][args.key], st)

\* a component that changes its model while it is evaluated, once
mutatedOnce(um) ==
  IF um.st.atoms[um.model].state = 0 THEN swap(um.model, 1, um.st) ELSE um.st

\* the hooks each component function calls before it returns
runHooks(f, props, st) ==
  CASE f \in {"Stateful", "Late", "Keeper"} ->
         useModel(props["$$refId"], ModelKey(f), InitialModel(f), OptionsOf(f),
                  st).st
    [] f = "SelfMut" ->
         mutatedOnce(useModel(props["$$refId"], ModelKey(f), InitialModel(f),
                              OptionsOf(f), st))
    [] OTHER -> st

(***************************************************************************)
(* The callers' inputs.                                                    *)
(***************************************************************************)
Call(f) == Expr(f, <<>>, <<>>)

Keyed(f, k) == Expr(f, <<[key |-> k]>>, <<>>)

EchoTree(x, su) == Expr("Echo", <<[x |-> x, shouldUpdate |-> su]>>, <<>>)

EchoTrees ==
  {EchoTree(x, su) : x \in {"1", "2"}, su \in {"eqX", "neqX"}}
    \cup {Expr("Echo", <<[x |-> "1"]>>, <<>>)}

\* [div, [FragA], 'mid', [FragT], [FragU], [Counter]]
PageTree ==
  Expr("div", <<>>,
       <<Call("FragA"), Prim("mid"), Call("FragT"), Call("FragU"), Call("Counter")>>)

\* [div, [Box, {x: '1'}, 'c']]
BoxTree == Expr("div", <<>>, <<Expr("Box", <<[x |-> "1"]>>, <<Prim("c")>>)>>)

\* [div, [[A]], [[B]]]
TwoListsTree == Expr("div", <<>>, <<List(<<Call("A")>>), List(<<Call("B")>>)>>)

\* [div, [[A, {key: '1'}], [B]]]
MixedKeysTree == Expr("div", <<>>, <<List(<<Keyed("A", <<"1">>), Call("B")>>)>>)

\* [div, [[A], [B], [C]]]
AbcTree == Expr("div", <<>>, <<List(<<Call("A"), Call("B"), Call("C")>>)>>)

\* [div, [[Wrapper, {key: 'k'}], [C]]]
WrapperTree == Expr("div", <<>>, <<List(<<Keyed("Wrapper", <<"k">>), Call("C")>>)>>)

\* [div, {children: ['c']}, 'p']
ChildrenTwiceTree == Expr("div", <<[children |-> <<Prim("c")>>]>>, <<Prim("p")>>)

\* [div, [[A, {key: 'a'}], [B, {key: 'b'}]], [[A], [B]]]
KeyedTree ==
  Expr("div", <<>>, <<List(<<Keyed("A", <<"a">>), Keyed("B", <<"b">>)>>),
                      List(<<Call("A"), Call("B")>>)>>)

\* KeyedTree with both collections reversed
PermutedTree ==
  Expr("div", <<>>, <<List(<<Keyed("B", <<"b">>), Keyed("A", <<"a">>)>>),
                      List(<<Call("B"), Call("A")>>)>>)

\* [div, [A, [B]], [Box, [C]], [Echo, {x: '1', shouldUpdate: neqX}]]: A ignores
\* its argument, Box returns its arguments, Echo is skipped when x is the same
ArgsTree ==
  Expr("div", <<>>,
       <<Expr("A", <<>>, <<Call("B")>>), Expr("Box", <<>>, <<Call("C")>>),
         EchoTree("1", "neqX")>>)

\* [div, [FragV], 'end']: FragV returns two nodes, or one, by the state it renders
VaryTree == Expr("div", <<>>, <<Call("FragV"), Prim("end")>>)

\* [div, {x: '1', shouldUpdate: (a, b) => a.x !== b.x}, [Counter]]: a leaf
\* constructor that is skipped when x is the same
MemoLeafTree ==
  Expr("div", <<[x |-> "1", shouldUpdate |-> "neqX"]>>, <<Call("Counter")>>)

\* [div, [Outer]]: Outer returns [div, [Counter]], a component below a
\* component that is not the root
NestTree == Expr("div", <<>>, <<Call("Outer")>>)

Trees ==
  EchoTrees \cup {PageTree, Call("Counter"), TwoListsTree, MixedKeysTree, AbcTree,
                  WrapperTree, ChildrenTwiceTree, BoxTree, KeyedTree, PermutedTree,
                  ArgsTree, VaryTree, MemoLeafTree, NestTree}

Seeds == {<<"root">>}

\* a seed that does not match the key pattern: the RefId of the value that a
\* component evaluated at "root" returned
FnSeed == <<"root", "/", "@fn">>

\* the calls made with another seed than "root", or with none
OtherSeeds == {FnSeed, NoSeed}

\* [[A], [B]]: a plain collection at top level
TopListTree == List(<<Call("A"), Call("B")>>)

\* a second seed that matches the key pattern
AltSeed == <<"alt">>

Inputs ==
  {<<value, seed>> : value \in Trees, seed \in Seeds}
    \cup {<<Call("Counter"), seed>> : seed \in OtherSeeds}
    \cup {<<TopListTree, seed>> : seed \in Seeds \cup {AltSeed}}

\* the components a caller re-renders with forceUpdate
Forceable ==
  {"Echo", "Counter", "FragA", "FragT", "FragU", "Box", "FragV", "Outer"}

(***************************************************************************)
(* The state machine: one action per exported operation.                   *)
(***************************************************************************)
St ==
  [cfgs |-> cfgs, disp |-> disp, tree |-> tree, heap |-> heap, env |-> env,
   registry |-> registry, atoms |-> atoms, hooks |-> hooks, fns |-> fns,
   computed |-> computed, log |-> <<>>, err |-> <<>>, pos |-> <<>>, muts |-> 0]

NoOp ==
  [op |-> "init", value |-> Undef, seed |-> <<>>, target |-> <<>>, log |-> <<>>,
   ret |-> Undef, err |-> <<>>, cur |-> Undef, parent |-> Undef, oChildren |-> <<>>,
   prior |-> <<>>, hook |-> <<>>, model |-> 0, nextValue |-> Undef]

Commit(st, l) ==
  /\ cfgs' = st.cfgs
  /\ disp' = st.disp
  /\ tree' = st.tree
  /\ heap' = st.heap
  /\ registry' = st.registry
  /\ atoms' = st.atoms
  /\ hooks' = st.hooks
  /\ fns' = st.fns
  /\ computed' = st.computed
  /\ last' = [l EXCEPT !.log = st.log, !.err = st.err,
                        !.prior = <<[op |-> last.op, value |-> last.value,
                                     seed |-> last.seed, err |-> last.err]>>]
  /\ steps' = steps + 1
  /\ UNCHANGED <<dev, env>>

Returned(op, value, seed, r) ==
  Commit(r.st, [NoOp EXCEPT !.op = op, !.value = value, !.seed = seed, !.ret = r.v])

Forced(refId, r) ==
  Commit(r.st, [NoOp EXCEPT !.op = "force", !.target = refId, !.ret = Undef,
                            !.cur = getTreeValue(St, refId),
                            !.nextValue = r.nextValue,
                            !.parent = r.parent, !.oChildren = r.oChildren])

Init ==
  /\ dev \in BOOLEAN
  /\ cfgs = EmptyMap
  /\ disp = EmptyMap
  /\ tree = EmptyMap
  /\ heap = <<>>
  /\ env = 0
  /\ registry = EmptyMap
  /\ atoms = <<>>
  /\ hooks = {}
  /\ fns = 0
  /\ computed = EmptyMap
  /\ last = NoOp
  /\ steps = 0

CreateElement(value, seed) ==
  /\ steps < MaxSteps
  /\ Returned("create", value, seed, createElement(value, seed, "identity", St))

RenderWith(value, seed) ==
  /\ steps < MaxSteps
  /\ Returned("render", value, seed,
              renderWith(Undef, value, seed, "setTreeValue", St))

ForceUpdate(refId) ==
  /\ steps < MaxSteps
  /\ refId \in DOMAIN disp
  /\ disp[refId] \in Forceable
  /\ Forced(refId, forceUpdate(refId, St))

\* the state the stateful components render changes
Mutate ==
  /\ env' = (env + 1) % (MaxEnv + 1)
  /\ UNCHANGED <<dev, cfgs, disp, tree, heap, registry, atoms, hooks, fns,
                 computed, last, steps>>

\* the node that the latest call returned, passed to createElement again
ExistingNodes == IF isVnode(heap, last.ret) THEN {last.ret} ELSE {}

\* [div, [Stateful], [Late]]: two components that use the same key
PairTree == Expr("div", <<>>, <<Call("Stateful"), Call("Late")>>)

HookTrees == {Call("Stateful"), PairTree, Call("Keeper"), Call("SelfMut")}

HookSeeds == {<<"root">>, <<"alt">>}

\* the holder of a model changes its state: every watcher runs
Swap(model) ==
  /\ steps < MaxHookSteps
  /\ Commit(swap(model, (atoms[model].state + 1) % (MaxModel + 1), St),
            [NoOp EXCEPT !.op = "swap", !.model = model])

\* the node that a useModel call belonged to is destroyed: the callback that
\* the call enqueued fires
Destroy(h) ==
  /\ steps < MaxHookSteps
  /\ ~h.fired
  /\ Commit(cleanupOnDestroy("destroy", h.refId, h,
                             [St EXCEPT !.hooks =
                                (@ \ {h}) \cup {[h EXCEPT !.fired = TRUE]}]),
            [NoOp EXCEPT !.op = "destroy", !.target = h.refId, !.hook = <<h>>])

HookNext ==
  \/ \E value \in HookTrees, seed \in HookSeeds : RenderWith(value, seed)
  \/ \E model \in 1..Len(atoms) : Swap(model)
  \/ \E h \in hooks : Destroy(h)

\* the behaviours of a caller whose components keep their state in models
HookSpec == Init /\ [][HookNext]_vars

Next ==
  \/ \E in \in Inputs : CreateElement(in[1], in[2])
  \/ \E in \in Inputs : RenderWith(in[1], in[2])
  \/ \E value \in ExistingNodes, seed \in Seeds \cup OtherSeeds :
       CreateElement(value, seed)
  \/ \E refId \in DOMAIN cfgs : ForceUpdate(refId)
  \/ Mutate

Spec == Init /\ [][Next]_vars

(***************************************************************************)
(* Properties.  `last` describes the latest operation: what it was given,  *)
(* what it returned and the evaluations it made, in order.                 *)
(***************************************************************************)
IsPass == last.op \in {"create", "render"} /\ last.err = <<>>

Evals == {i \in 1..Len(last.log) : last.log[i].e = "eval"}

HasKey(v) == v.t = "expr" /\ v.cfg # <<>> /\ "key" \in DOMAIN v.cfg[1]

KeysDistinct(vs) ==
  \A i, j \in 1..Len(vs) :
    (i # j /\ HasKey(vs[i]) /\ HasKey(vs[j]))
      => vs[i].cfg[1]["key"] # vs[j].cfg[1]["key"]

\* explicitly keyed siblings carry pairwise distinct valid keys
RECURSIVE siblingKeysDistinct(_)
siblingKeysDistinct(v) ==
  IF v.t = "list"
    THEN /\ KeysDistinct(v.items)
         /\ \A i \in 1..Len(v.items) : siblingKeysDistinct(v.items[i])
  ELSE IF v.t = "expr"
    THEN /\ HasKey(v) => keyRegexTest(v.cfg[1]["key"])
         /\ KeysDistinct(v.args)
         /\ \A i \in 1..Len(v.args) : siblingKeysDistinct(v.args[i])
  ELSE TRUE

\* C1: RefId uniqueness.  Within one evaluation pass (createElement or
\* renderWith) of a tree whose keyed siblings carry pairwise distinct valid
\* keys, no two distinct tree positions at which a callable head is evaluated
\* are assigned the same RefId.
RefIdsUniqueInPass ==
  (IsPass /\ siblingKeysDistinct(last.value)) =>
    \A i, j \in Evals :
      last.log[i].pos # last.log[j].pos => last.log[i].refId # last.log[j].refId

Root == <<"root">>

\* the step is one createElement / renderWith call that returned
PassStep ==
  /\ steps' = steps + 1
  /\ last'.op \in {"create", "render"}
  /\ last'.err = <<>>

PredOf(v) ==
  IF "shouldUpdate" \in DOMAIN v.cfg[1] THEN v.cfg[1]["shouldUpdate"] ELSE alwaysTrue

\* a component evaluated at Root before is evaluated at Root again
EchoAgain == PassStep /\ last'.value \in EchoTrees /\ Root \in DOMAIN cfgs

\* the component function is invoked exactly when shouldUpdate(p1, p2) holds,
\* p1 being the props recorded at Root and p2 the props of this evaluation
SkipIffPredicateFalse ==
  EchoAgain =>
    /\ last'.log[1].refId = Root
    /\ last'.log[1].called
         <=> shouldUpdateFn(PredOf(last'.value), cfgs[Root].props, last'.value.cfg[1])

\* {x:1} then {x:1} with (a, b) => a.x !== b.x is skipped, {x:2} is invoked
SkipExampleNeq ==
  \A x \in {"1", "2"} :
    (EchoAgain /\ last'.value = EchoTree(x, "neqX") /\ PropX(cfgs[Root].props) = <<"1">>)
      => (last'.log[1].called <=> x = "2")

\* {x:1} then {x:1} with (a, b) => a.x === b.x is skipped, {x:2} is invoked
SkipExampleEq ==
  \A x \in {"1", "2"} :
    (EchoAgain /\ last'.value = EchoTree(x, "eqX") /\ PropX(cfgs[Root].props) = <<"1">>)
      => (last'.log[1].called <=> x = "2")

\* C2 (as stated): a later evaluation at the same RefId does not invoke the
\* component function when shouldUpdate(p1, p2) is false, e.g. {x:1} then {x:1}
\* with (a, b) => a.x === b.x, and does invoke it when the predicate is true,
\* e.g. a third evaluation with {x:2}.
MemoizationSkipAsStated == [][SkipIffPredicateFalse /\ SkipExampleEq]_vars

\* C2 (amended): a later evaluation at the same RefId does not invoke the
\* component function when shouldUpdate(p1, p2) is false, e.g. {x:1} then {x:1}
\* with (a, b) => a.x !== b.x, and does invoke it when the predicate is true,
\* e.g. a third evaluation with {x:2}.
MemoizationSkip == [][SkipIffPredicateFalse /\ SkipExampleNeq]_vars

\* an evaluation with {x:1} after {x:1} was skipped by (a, b) => a.x !== b.x
MemoizationSkipWitness ==
  /\ IsPass
  /\ last.value = EchoTree("1", "neqX")
  /\ last.log[1].hasConfig
  /\ PropX(last.log[1].oProps) = <<"1">>
  /\ ~last.log[1].called

\* the same object, or two objects with the same contents
SameValue(a, b) == a = b \/ (IsRef(a) /\ IsRef(b) /\ heap[a.id] = heap[b.id])

\* C3: when memoization skips the invocation at RefId R, the evaluator returns
\* the value previously computed for R, whichever entry point (createElement
\* or renderWith) performed the earlier invocation at R.
SkipReturnsComputedValue ==
  \A i \in Evals :
    ~last.log[i].called =>
      /\ last.log[i].prev # <<>>
      /\ SameValue(last.log[i].ret, last.log[i].prev[1])

Latest(S) == CHOOSE j \in S : \A k \in S : k <= j

\* the objects of the tree whose root is v: v, and what its children and
\* elements hold
RECURSIVE NodesUnder(_)
NodesUnder(v) ==
  IF isVnode(heap, v)
    THEN {v} \cup UNION {NodesUnder(heap[v.id].props["children"][k]) :
                           k \in 1..(IF "children" \in DOMAIN heap[v.id].props
                                       THEN Len(heap[v.id].props["children"])
                                       ELSE 0)}
  ELSE IF isArray(heap, v)
    THEN {v} \cup UNION {NodesUnder(heap[v.id].items[k]) :
                           k \in 1..Len(heap[v.id].items)}
  ELSE {}

\* the nodes of the tree committed at "root"
Committed == IF Root \in DOMAIN tree THEN NodesUnder(tree[Root]) ELSE {}

\* the latest operation was forceUpdate(R) where R had produced a fragment
\* that is a child of the parent composite node P
IsFragmentForce ==
  /\ last.op = "force"
  /\ last.err = <<>>
  /\ isArray(heap, last.cur)
  /\ \E i \in 1..Len(last.oChildren) : last.oChildren[i] = last.cur

\* C4: fragment forced update.  After forceUpdate(R), P's new children
\* sequence has exactly the slots of the fragment of R replaced by the newly
\* computed nodes, and every other child of P (sibling fragments included) is
\* the same object as before.
FragmentForceKeepsSiblings ==
  IsFragmentForce =>
    /\ Len(heap[last.parent.id].props["children"]) = Len(last.oChildren)
    /\ \A i \in 1..Len(last.oChildren) :
         heap[last.parent.id].props["children"][i]
           = IF last.oChildren[i] = last.cur THEN last.nextValue
             ELSE last.oChildren[i]

\* the step is one forceUpdate(last'.target) call
ForceStep == steps' = steps + 1 /\ last'.op = "force"

\* C5: forceUpdate(R) always re-invokes the component function recorded at R
\* with its last-known props, whatever shouldUpdate predicate the caller
\* supplied on the last render, and the config recorded by that re-invocation
\* has RefId exactly R.
ForceUpdateReinvokes ==
  [][ForceStep =>
       /\ Len(last'.log) > 0
       /\ last'.log[1].refId = last'.target
       /\ last'.log[1].f = disp[last'.target]
       /\ last'.log[1].called
       /\ last'.log[1].nProps = cfgs[last'.target].props
       /\ cfgs'[last'.target].props["$$refId"] = last'.target]_vars

\* the step is forceUpdate(R) where the node at R had produced the single
\* value V = last'.cur, which the tree-value store holds
SingleNodeForceStep ==
  /\ ForceStep
  /\ last'.err = <<>>
  /\ isVnode(heap, last'.cur)
  /\ ~isArray(heap, last'.cur)

\* the objects that ancestors in the committed tree hold at the position of V
HeldAt(V) ==
  {n \in Committed : isVnode(heap, n) /\ heap[n.id].refId = heap[V.id].refId
                                       /\ heap[V.id].refId # <<>>}

\* C6: single-node forced update.  After forceUpdate(R) the object V that the
\* tree-value store and the ancestors held before the call has the contents of
\* the newly computed value, and the outer reference is not replaced: the
\* store still holds V for R, and what the ancestors hold at the position of V
\* has the new contents.
SingleNodeForceInPlace ==
  [][SingleNodeForceStep =>
       /\ IsRef(last'.nextValue)
       /\ heap'[last'.cur.id] = heap'[last'.nextValue.id]
       /\ tree'[last'.target] = tree[last'.target]
       /\ \A n \in HeldAt(last'.cur) :
            heap'[n.id] = heap'[last'.nextValue.id]]_vars

\* [Wrapper, {key: 'k'}] in a collection under Root
WrapperRefId == <<"root", "/", "@item", "/", "k">>

\* C7: key propagation.  When a component function is invoked with an
\* explicit key k and returns another expression instead of a leaf node
\* (Wrapper returns [Inner, {}]), the leaf node the chain resolves to carries
\* key === k.
KeyPropagatesToLeaf ==
  (IsPass /\ last.value = WrapperTree) =>
    \A i \in 1..Len(last.log) :
      (last.log[i].e = "done" /\ last.log[i].refId = WrapperRefId)
        => /\ isVnode(heap, last.log[i].v)
           /\ heap[last.log[i].v.id].key = <<<<"k">>>>

\* the configuration mapping has a `children` entry and there are trailing
\* positional arguments
HasChildrenTwice(v) ==
  /\ v.t = "expr"
  /\ v.cfg # <<>>
  /\ "children" \in DOMAIN v.cfg[1]
  /\ v.args # <<>>

\* C8: children conflict.  Evaluating an expression whose configuration has a
\* `children` entry and which also has trailing positional arguments raises
\* the conflicting-children error; no node is produced and its head is not
\* invoked.
ChildrenConflictRaises ==
  (last.op \in {"create", "render"} /\ HasChildrenTwice(last.value)) =>
    /\ last.err # <<>>
    /\ last.ret = Undef
    /\ \A i \in Evals : ~last.log[i].called

\* the latest operation evaluated the tree and seed of the one before it
IsSecondPass ==
  /\ IsPass
  /\ last.prior # <<>>
  /\ last.prior[1].op \in {"create", "render"}
  /\ last.prior[1].err = <<>>
  /\ last.prior[1].value = last.value
  /\ last.prior[1].seed = last.seed

EvalsOf(log) == {i \in 1..Len(log) : log[i].e = "eval"}

\* C9: path stability.  Evaluating the same tree with the same seed twice
\* assigns the same RefId to every position evaluated in both passes, whatever
\* the first pass left in the memoization store and the tree-value store.
PathStability ==
  [][(PassStep /\ IsPass /\ last'.value = last.value /\ last'.seed = last.seed) =>
       \A i \in EvalsOf(last'.log), j \in EvalsOf(last.log) :
         last'.log[i].pos = last.log[j].pos
           => last'.log[i].refId = last.log[j].refId]_vars

\* a second pass over a tree found the configs of the first at every position
\* it evaluated, three levels deep
PathStabilityWitness ==
  /\ IsSecondPass
  /\ \A i \in Evals : last.log[i].hasConfig
  /\ \E i \in Evals : Len(last.log[i].pos) = 3

\* the i-th element (1-based) of the collection that is argument a of v
ItemOf(v, a, i) == v.args[a].items[i]

\* C10: index fallback.  A plain collection of n unkeyed expressions evaluated
\* at parent path "root" gives the i-th element (0-based) the RefId
\* "root/@item/i", for every i < n.
IndexFallback ==
  (IsPass /\ last.value.t = "expr" /\ last.seed = Root) =>
    \A a \in 1..Len(last.value.args) :
      last.value.args[a].t = "list" =>
        \A i \in 1..Len(last.value.args[a].items) :
          (ItemOf(last.value, a, i).t = "expr" /\ ~HasKey(ItemOf(last.value, a, i)))
            => \E e \in Evals :
                 /\ last.log[e].pos = <<Str(a - 1), Str(i - 1)>>
                 /\ last.log[e].f = ItemOf(last.value, a, i).f
                 /\ last.log[e].refId = <<"root", "/", "@item", "/">> \o Str(i - 1)

\* [A, B, C] under Root: C was evaluated at "root/@item/2"
IndexFallbackWitness ==
  /\ IsPass
  /\ last.value = AbcTree
  /\ last.seed = Root
  /\ \E e \in Evals :
       /\ last.log[e].f = "C"
       /\ last.log[e].refId = <<"root", "/", "@item", "/", "2">>

\* the collections of v: the arguments of v that are plain collections
Collections(v) ==
  IF v.t = "expr" THEN {a \in 1..Len(v.args) : v.args[a].t = "list"} ELSE {}

\* w is v with the elements of every collection permuted
IsPermutationOf(v, w) ==
  /\ v.t = "expr" /\ w.t = "expr"
  /\ v.f = w.f /\ Len(v.args) = Len(w.args)
  /\ Collections(v) = Collections(w) /\ Collections(v) # {}
  /\ \A a \in Collections(v) :
       /\ Len(v.args[a].items) = Len(w.args[a].items)
       /\ \A i, j \in 1..Len(v.args[a].items) :
            i # j => ItemOf(v, a, i) # ItemOf(v, a, j)
       /\ \A i \in 1..Len(v.args[a].items) :
            /\ ItemOf(v, a, i).t = "expr"
            /\ \E j \in 1..Len(w.args[a].items) : ItemOf(w, a, j) = ItemOf(v, a, i)

\* the RefId that a pass gave the i-th element (1-based) of collection a
ItemRefId(log, a, i) ==
  {log[e].refId : e \in {x \in EvalsOf(log) : log[x].pos = <<Str(a - 1), Str(i - 1)>>}}

AllKeyed(items) ==
  /\ \A i \in 1..Len(items) : HasKey(items[i])
  /\ KeysDistinct(items)

\* C11: keyed identity under reordering.  When a collection whose elements
\* carry pairwise distinct explicit keys is evaluated again at the same parent
\* path with its elements permuted, every element gets the RefId it had; an
\* element without a key gets the same RefId exactly when its index is the same.
KeyedIdentity ==
  [][(PassStep /\ IsPass /\ last'.seed = last.seed
        /\ IsPermutationOf(last.value, last'.value)) =>
       \A a \in Collections(last.value) :
         \A i, j \in 1..Len(last.value.args[a].items) :
           ItemOf(last'.value, a, j) = ItemOf(last.value, a, i) =>
             /\ ItemRefId(last.log, a, i) # {}
             /\ ItemRefId(last'.log, a, j) # {}
             /\ AllKeyed(last.value.args[a].items) =>
                  ItemRefId(last'.log, a, j) = ItemRefId(last.log, a, i)
             /\ ~HasKey(ItemOf(last.value, a, i)) =>
                  (ItemRefId(last'.log, a, j) = ItemRefId(last.log, a, i) <=> i = j)]_vars

\* PermutedTree was evaluated right after KeyedTree: the keyed A moved from
\* index 0 to index 1 and is still "root/@item/a", the unkeyed A moved with it
\* and went from "root/@item/0" to "root/@item/1"
KeyedIdentityWitness ==
  /\ IsPass
  /\ last.value = PermutedTree
  /\ last.seed = Root
  /\ last.prior # <<>>
  /\ last.prior[1].op \in {"create", "render"}
  /\ last.prior[1].err = <<>>
  /\ last.prior[1].value = KeyedTree
  /\ last.prior[1].seed = Root
  /\ ItemRefId(last.log, 1, 2) = {<<"root", "/", "@item", "/", "a">>}
  /\ ItemRefId(last.log, 2, 2) = {<<"root", "/", "@item", "/", "1">>}

\* the step is a createElement call on a node that an earlier call built
ExistingNodeStep ==
  /\ steps' = steps + 1
  /\ last'.op = "create"
  /\ isVnode(heap, last'.value)

\* C12: round-trip pass-through.  createElement applied to an already-built
\* node returns that node, raises nothing and leaves the stores and the node as
\* they were, whatever seed is passed, none included.
PassThrough ==
  [][ExistingNodeStep =>
       /\ last'.err = <<>>
       /\ last'.ret = last'.value
       /\ cfgs' = cfgs /\ disp' = disp /\ tree' = tree /\ heap' = heap]_vars

\* the seed is a string or number made of letters, digits, "-", "_" and "/"
MatchesKeyPattern(seed) ==
  /\ seed # NoSeed
  /\ \A i \in 1..Len(seed) : seed[i] \notin {"@item", "@fn"}

\* the step is one createElement / renderWith call, returned or raised
CallStep ==
  /\ steps' = steps + 1
  /\ last'.op \in {"create", "render"}

\* C20: invalid seed identity.  With development-mode validation on, a
\* createElement / renderWith call whose seed is not in the tree-value store and
\* does not match the key pattern raises before any component is invoked and
\* leaves the memoization store and the tree-value store as they were; a seed
\* that is in the tree-value store is accepted even when it does not match.
InvalidSeedRaises ==
  [][(CallStep /\ dev /\ ~MatchesKeyPattern(last'.seed)) =>
       IF last'.seed \in DOMAIN tree
         THEN last'.err # <<"InvalidSeedPath">>
         ELSE /\ last'.err = <<"InvalidSeedPath">>
              /\ last'.log = <<>>
              /\ cfgs' = cfgs /\ disp' = disp /\ tree' = tree]_vars

\* renderWith([Counter], "root/@fn") raised while the stores held the values of
\* an earlier pass, none of them for "root/@fn"
InvalidSeedWitness ==
  /\ dev
  /\ last.op = "render"
  /\ last.value = Call("Counter")
  /\ last.seed = FnSeed
  /\ last.err = <<"InvalidSeedPath">>
  /\ last.log = <<>>
  /\ Root \in DOMAIN tree
  /\ FnSeed \notin DOMAIN tree

\* createElement([Counter], "root/@fn") was accepted after a render pass had
\* stored a value for "root/@fn"
KnownSeedAccepted ==
  /\ dev
  /\ last.op = "create"
  /\ last.seed = FnSeed
  /\ last.err = <<>>
  /\ \E i \in Evals : last.log[i].called /\ last.log[i].refId = FnSeed

Dones == {i \in 1..Len(last.log) : last.log[i].e = "done"}

\* position q lies beneath position p
Beneath(q, p) == Len(q) > Len(p) /\ SubSeq(q, 1, Len(p)) = p

\* C18: bottom-up completion.  In every evaluation pass the completion callback
\* of a position fires only after the completion callbacks of every position
\* invoked beneath it (its eagerly evaluated arguments and its body) have
\* fired, and after a render pass the tree-value store holds a value for each.
BottomUpCompletion ==
  last.op \in {"create", "render", "force"} =>
    \A i \in Dones :
      /\ last.op = "render" =>
           /\ last.log[i].refId \in DOMAIN tree
           /\ \E k \in Dones : /\ last.log[k].refId = last.log[i].refId
                                /\ tree[last.log[i].refId] = last.log[k].v
      /\ \A j \in Evals :
           (last.log[j].called /\ Beneath(last.log[j].pos, last.log[i].pos)) =>
             \E k \in Dones :
               /\ j < k /\ k < i
               /\ last.log[k].pos = last.log[j].pos
               /\ last.log[k].refId = last.log[j].refId

\* [div, [Box, {x: '1'}, 'c']] was rendered: the completion callback of the div
\* fired last, after those of Box, of the span in its body and of the 'c' in it
BottomUpWitness ==
  /\ IsPass
  /\ last.op = "render"
  /\ last.value = BoxTree
  /\ \E i, j, k \in Dones :
       /\ last.log[i].pos = <<>> /\ i = Len(last.log)
       /\ last.log[j].pos = <<Str(0)>> /\ j < i
       /\ last.log[k].pos = <<Str(0), <<"fn">>>> /\ k < j

(***************************************************************************)
(* Properties of the models, checked on HookSpec.                          *)
(***************************************************************************)
\* the step is one call of the caller, returned or raised
HookStep == steps' = steps + 1

UseEvents(log) == {i \in 1..Len(log) : log[i].e = "useModel"}

\* the useModel calls made before call i of the log with its root and key
SameModelBefore(log, i) ==
  {j \in UseEvents(log) :
     /\ j < i
     /\ PathRoot(log[j].refId) = PathRoot(log[i].refId)
     /\ log[j].key = log[i].key}

\* the registry held a model for this root and key when the step began
Registered(reg, root, key) == root \in DOMAIN reg /\ key \in DOMAIN reg[root]

\* the state that `model` had when event i of the log happened, `before` being
\* the models when the step began
StateAt(log, i, model, before) ==
  IF \E j \in 1..(i - 1) : log[j].e = "swap" /\ log[j].model = model
    THEN log[Latest({j \in 1..(i - 1) :
                       log[j].e = "swap" /\ log[j].model = model})].value
  ELSE IF \E j \in UseEvents(log) : j < i /\ log[j].model = model /\ log[j].created
    THEN log[Latest({j \in UseEvents(log) :
                       j < i /\ log[j].model = model /\ log[j].created})].state
  ELSE before[model].state

\* C13: useModel creates a model at most once per subtree root and key.  The
\* first call creates it from initialValue, calling initialValue when it is a
\* producer; every later call with the same root and key, from any pass and any
\* RefId under the root, returns that model with the state it has then and
\* does not evaluate initialValue, as long as teardown has not deleted it.
UseModelOnce ==
  [][HookStep =>
       \A i \in UseEvents(last'.log) :
         IF SameModelBefore(last'.log, i) # {}
           THEN /\ ~last'.log[i].created
                /\ last'.log[i].model =
                     last'.log[Latest(SameModelBefore(last'.log, i))].model
                /\ last'.log[i].state =
                     StateAt(last'.log, i, last'.log[i].model, atoms)
                /\ last'.log[i - 1].e # "initModel"
         ELSE IF Registered(registry, PathRoot(last'.log[i].refId), last'.log[i].key)
           THEN /\ ~last'.log[i].created
                /\ last'.log[i].model =
                     registry[PathRoot(last'.log[i].refId)][last'.log[i].key]
                /\ last'.log[i].state =
                     StateAt(last'.log, i, last'.log[i].model, atoms)
                /\ i > 1 => last'.log[i - 1].e # "initModel"
         ELSE /\ last'.log[i].created
              /\ last'.log[i].model > Len(atoms)
              /\ \A j \in UseEvents(last'.log) :
                   j < i => last'.log[j].model # last'.log[i].model
              /\ i > 1
              /\ last'.log[i - 1] =
                   [e |-> "initModel",
                    func |-> InitialModel(disp'[last'.log[i].refId]).func,
                    v |-> InitialModel(disp'[last'.log[i].refId]).v]
              /\ last'.log[i].state = InitialModel(disp'[last'.log[i].refId]).v]_vars

\* [div, [Stateful], [Late]] was rendered and the model changed twice: the
\* re-evaluated Late, whose initialValue is 1, got the model that Stateful
\* created from 0 in the render pass, at its state 2
UseModelOnceWitness ==
  /\ last.op = "swap"
  /\ last.err = <<>>
  /\ \E i \in UseEvents(last.log) :
       /\ last.log[i].refId = <<"root", "/", "1">>
       /\ disp[last.log[i].refId] = "Late"
       /\ ~last.log[i].created
       /\ last.log[i].model = last.model
       /\ last.log[i].state = 2

\* the subtree roots that `model` belongs to: where it is registered and where
\* its watchers are
RootsOf(model) ==
  {r \in DOMAIN registry : \E k \in DOMAIN registry[r] : registry[r][k] = model}
    \cup {PathRoot(atoms[model].watchersList[i].id) :
            i \in 1..Len(atoms[model].watchersList)}

\* the subtree roots that the step acts on
ActedRoots ==
  IF last'.op = "swap" THEN RootsOf(last'.model)
  ELSE IF last'.op = "destroy" THEN {PathRoot(last'.target)}
  ELSE {PathRoot(last'.seed)}

\* C14: registry scoping.  A useModel call registers its model in the registry
\* of the prefix of its RefId up to the first path separator, so two RefIds
\* share a registry exactly when they have the same prefix; models under
\* different roots are distinct even when their keys are equal; and a step that
\* mutates or tears down a model of one root changes no registry and no model
\* of another root.
RegistryScoping ==
  [][HookStep =>
       /\ \A i \in UseEvents(last'.log) :
            /\ Registered(registry', PathRoot(last'.log[i].refId), last'.log[i].key)
            /\ registry'[PathRoot(last'.log[i].refId)][last'.log[i].key]
                 = last'.log[i].model
       /\ \A r1, r2 \in DOMAIN registry' :
            r1 # r2 =>
              \A k1 \in DOMAIN registry'[r1], k2 \in DOMAIN registry'[r2] :
                registry'[r1][k1] # registry'[r2][k2]
       /\ \A r \in DOMAIN registry \ ActedRoots :
            /\ r \in DOMAIN registry'
            /\ registry'[r] = registry[r]
            /\ \A k \in DOMAIN registry[r] :
                 atoms'[registry[r][k]] = atoms[registry[r][k]]]_vars

\* Stateful was rendered under "root" and under "alt" with the same key, and
\* the model of "root" was mutated: the two models are distinct and the model
\* of "alt" kept its state and its watcher
RegistryScopingWitness ==
  /\ last.op = "swap"
  /\ last.err = <<>>
  /\ Registered(registry, <<"root">>, <<"k">>)
  /\ Registered(registry, <<"alt">>, <<"k">>)
  /\ registry[<<"root">>][<<"k">>] = last.model
  /\ registry[<<"alt">>][<<"k">>] # last.model
  /\ atoms[last.model].state = 1
  /\ atoms[registry[<<"alt">>][<<"k">>]].state = 0
  /\ watcherOf(atoms[registry[<<"alt">>][<<"k">>]], <<"alt">>) # <<>>

Swaps == {i \in 1..Len(last.log) : last.log[i].e = "swap"}

\* the update calls that mutation `mut` made for RefId R
UpdatesOf(mut, R) ==
  {i \in 1..Len(last.log) :
     /\ last.log[i].e = "update"
     /\ last.log[i].mut = mut
     /\ last.log[i].refId = R}

\* the RefIds that had called useModel on the model, and were not torn down,
\* when mutation s began
WatchingAt(s) ==
  {last.log[s].watchers[i].id : i \in 1..Len(last.log[s].watchers)}

\* C15: from useModel(R, K) until the teardown of R, every mutation of the
\* model calls forceUpdate(R) exactly once, however many passes have called
\* useModel at R before.
UpdatesExactlyOnce ==
  \A s \in Swaps :
    \A R \in WatchingAt(s) : Cardinality(UpdatesOf(last.log[s].mut, R)) = 1

\* two render passes called useModel at "root", neither was torn down, and the
\* model was then mutated: forceUpdate("root") ran once, and the pass it ran
\* left one watcher under "root" again
UpdatesExactlyOnceWitness ==
  /\ last.op = "swap"
  /\ last.err = <<>>
  /\ WatchingAt(1) = {Root}
  /\ Cardinality(UpdatesOf(1, Root)) = 1
  /\ Cardinality({h \in hooks : h.refId = Root /\ h.key = <<"k">> /\ ~h.fired}) = 3
  /\ Len(atoms[last.model].watchersList) = 1

\* the step fires the destroy callback h
DestroyStep(h) == HookStep /\ last'.op = "destroy" /\ last'.hook = <<h>>

\* h was enqueued by the latest useModel call made with its RefId and key
IsLatest(h) ==
  \A g \in hooks :
    (g.refId = h.refId /\ g.key = h.key) => g.watcherFn <= h.watcherFn

\* the models on which the watcher of the useModel call of h is registered
WatchedBy(h) ==
  {m \in 1..Len(atoms) : watcherOf(atoms[m], h.refId) = <<h.watcherFn>>}

\* C16: teardown.  When the destroy callback enqueued by the latest
\* useModel(R, K) call fires, the watcher registered under R is removed from
\* the model, and the model leaves the registry exactly when shouldCleanup()
\* returns true; when it returns false the model stays registered under the
\* root and K with its state, for the next useModel call to return.
Teardown ==
  [][\A h \in hooks :
       (DestroyStep(h) /\ IsLatest(h)) =>
         /\ last'.err = <<>>
         /\ WatchedBy(h) # {}
         /\ \A m \in WatchedBy(h) : watcherOf(atoms'[m], h.refId) = <<>>
         /\ Registered(registry', PathRoot(h.refId), h.key) <=> ~h.shouldCleanup
         /\ ~h.shouldCleanup =>
              /\ registry'[PathRoot(h.refId)][h.key] \in WatchedBy(h)
              /\ atoms'[registry'[PathRoot(h.refId)][h.key]].state =
                   atoms[registry'[PathRoot(h.refId)][h.key]].state]_vars

\* the callbacks enqueued by later useModel calls with the RefId and key of h
\* whose watcher is registered on a model
Replacements(h) ==
  {g \in hooks :
     /\ g.refId = h.refId /\ g.key = h.key
     /\ g.watcherFn > h.watcherFn
     /\ WatchedBy(g) # {}}

\* C17: stale-watcher guard.  A destroy callback enqueued by an earlier pass of
\* R that fires after a later pass of R has attached a replacement watcher
\* removes neither that watcher nor the model: the registry and the watchers of
\* every model are as they were.
StaleGuard ==
  [][\A h \in hooks :
       (DestroyStep(h) /\ Replacements(h) # {}) =>
         /\ \A g \in Replacements(h) :
              \A m \in WatchedBy(g) : watcherOf(atoms'[m], g.refId) = <<g.watcherFn>>
         /\ registry' = registry
         /\ atoms' = atoms]_vars

\* Stateful was rendered at "root" twice and the callback of the first pass
\* fired: the model is registered and the watcher of the second pass is on it
StaleGuardWitness ==
  /\ last.op = "destroy"
  /\ last.err = <<>>
  /\ last.target = Root
  /\ last.hook[1].key = <<"k">>
  /\ last.hook[1].watcherFn = 1
  /\ Registered(registry, Root, <<"k">>)
  /\ watcherOf(atoms[registry[Root][<<"k">>]], Root) = <<2>>

\* the mutations that a component made on its model during its evaluation
SelfSwaps == {s \in Swaps : last.op # "swap" \/ s > 1}

\* the RefId of the component that was evaluating when event s happened
Evaluating(s) ==
  last.log[Latest({i \in 1..(s - 1) : last.log[i].e = "useModel"})].refId

\* the text that the value stored for RefId R shows
ShownAt(R) == heap[heap[tree[R].id].props["children"][1].id].text

\* C19: re-entrant forced update is tolerated.  When a component mutates its
\* own model once during its evaluation, the forceUpdate that the watcher
\* runs inside that evaluation raises nothing, and at the end of the pass the
\* value stored for the node shows the latest state of the model, on the first
\* render of the node as well as on later ones.
ReentrantUpdateTolerated ==
  \A s \in SelfSwaps :
    /\ last.err = <<>>
    /\ Evaluating(s) \in DOMAIN tree
    /\ isVnode(heap, tree[Evaluating(s)])
    /\ ShownAt(Evaluating(s)) = <<Digit(atoms[last.log[s].model].state)>>

Invokes == {i \in 1..Len(last.log) : last.log[i].e = "invoke"}

\* C21: the config is recorded before the invocation.  When the head function
\* of the expression at RefId R is invoked, the config recorded for R is the
\* new one, whose props are the input of the function, and the dispatcher
\* recorded for R is that function.
ConfigBeforeInvoke ==
  \A i \in Invokes :
    /\ last.log[i].cfg =
         <<[props |-> last.log[i].input, key |-> last.log[i].refId,
            ctor |-> last.log[i].f]>>
    /\ last.log[i].disp = <<last.log[i].f>>
    /\ i > 1 /\ last.log[i - 1].e = "eval" /\ last.log[i - 1].called
    /\ last.log[i - 1].refId = last.log[i].refId
    /\ last.log[i - 1].nProps = last.log[i].input

\* Echo was evaluated at "root" with x = '1' and then with x = '2': the second
\* invocation found the config with x = '2' recorded, the one of the first
\* evaluation being the old props of the comparison
ConfigBeforeInvokeWitness ==
  /\ IsPass
  /\ \E i \in Invokes :
       /\ last.log[i].f = "Echo"
       /\ last.log[i].refId = Root
       /\ "x" \in DOMAIN last.log[i].input
       /\ last.log[i].cfg[1].props["x"] = "2"
       /\ last.log[i - 1].hasConfig
       /\ "x" \in DOMAIN last.log[i - 1].oProps
       /\ last.log[i - 1].oProps["x"] = "1"

\* C22: lazy versus eager arguments.  A component function receives as
\* children its positional arguments as they are in the input: none of them has
\* been evaluated when it is called, and none is evaluated later unless it is
\* part of what the function returns.  A leaf constructor receives children
\* that are all evaluated: nodes, or collections of nodes.
LazyAndEagerArguments ==
  \A i \in Invokes :
    IF last.log[i].f \in nativeElements
      THEN \A k \in 1..Len(last.log[i].input["children"]) :
             \/ isVnode(heap, last.log[i].input["children"][k])
             \/ isArray(heap, last.log[i].input["children"][k])
      ELSE /\ last.log[i].input["children"] = last.log[i - 1].args
           /\ \A j \in Evals :
                Beneath(last.log[j].pos, last.log[i].pos) =>
                  /\ j > i
                  /\ last.log[j].pos[Len(last.log[i].pos) + 1] = <<"fn">>

\* the props of the latest invocation at R before event i of the operation:
\* those of an earlier invocation of this operation, else those recorded for R
\* when the operation began
InvokesAt(log, i, R) ==
  {j \in 1..(i - 1) : log[j].e = "invoke" /\ log[j].refId = R}

BaselineAt(log, i, R) ==
  IF InvokesAt(log, i, R) # {} THEN <<log[Latest(InvokesAt(log, i, R))].input>>
  ELSE IF R \in DOMAIN cfgs THEN <<cfgs[R].props>>
  ELSE <<>>

\* every evaluation of the operation compared against the props of the latest
\* invocation at its RefId
ComparesWithLatestInvocation ==
  \A i \in EvalsOf(last'.log) :
    /\ last'.log[i].hasConfig
         <=> BaselineAt(last'.log, i, last'.log[i].refId) # <<>>
    /\ last'.log[i].hasConfig
         => last'.log[i].oProps = BaselineAt(last'.log, i, last'.log[i].refId)[1]
    /\ last'.log[i].called
         <=> (~last'.log[i].hasConfig
              \/ shouldUpdateFn(last'.log[i].shouldUpdate, last'.log[i].oProps,
                                last'.log[i].nProps))

\* what is recorded for a RefId changes only when a head function was invoked
\* there, and is then the config of the latest such invocation
RecordedOnlyOnInvocation ==
  \A R \in DOMAIN cfgs' :
    /\ DOMAIN cfgs \subseteq DOMAIN cfgs'
    /\ (R \notin DOMAIN cfgs \/ cfgs'[R] # cfgs[R])
         => InvokesAt(last'.log, Len(last'.log) + 1, R) # {}
    /\ InvokesAt(last'.log, Len(last'.log) + 1, R) # {}
         => cfgs'[R].props
              = BaselineAt(last'.log, Len(last'.log) + 1, R)[1]

\* C23: the old props passed to shouldUpdate at RefId R are the props of the
\* most recent evaluation at R that invoked the head function.  An evaluation
\* skipped by memoization does not replace what is recorded for R: the
\* baseline of the comparison changes only on invocations.
BaselineIsLatestInvocation ==
  [][steps' = steps + 1
       => ComparesWithLatestInvocation /\ RecordedOnlyOnInvocation]_vars

\* Echo was evaluated at "root" with x = '1', then with x = '2' and skipped by
\* (a, b) => a.x === b.x, and is now evaluated with x = '1' again: the old
\* props of the comparison are still those with x = '1'
BaselineWitness ==
  /\ IsPass
  /\ last.value = EchoTree("1", "eqX")
  /\ last.prior[1].value = EchoTree("2", "eqX")
  /\ last.prior[1].op \in {"create", "render"}
  /\ last.prior[1].err = <<>>
  /\ last.prior[1].seed = Root
  /\ last.seed = Root
  /\ last.log[1].hasConfig
  /\ PropX(last.log[1].oProps) = <<"1">>
  /\ last.log[1].called

\* C24: after a forced update at a RefId R that had produced a fragment, the
\* value the tree-value store holds for R equals the newly computed fragment:
\* the same length and the same elements in order, whether the new fragment is
\* longer than, as long as, or shorter than the previous one.
FragmentStoreMatchesNew ==
  (IsFragmentForce /\ isArray(heap, last.nextValue)) =>
    /\ isArray(heap, tree[last.target])
    /\ heap[tree[last.target].id].items = heap[last.nextValue.id].items

\* the RefId is the seed, or the seed followed by the separator and more
HasSeedPrefix(refId, seed) ==
  \/ refId = seed
  \/ /\ Len(refId) > Len(seed)
     /\ SubSeq(refId, 1, Len(seed) + 1) = seed \o <<pathSeparator>>

\* C25: seed prefixing.  Every RefId assigned during createElement(value, S)
\* or renderWith(_, value, S) with a seed S that matches the key pattern is S
\* or starts with S followed by the separator, whatever the shape of value:
\* an expression, a plain collection at top level, a component that returns a
\* collection.
SeedPrefixing ==
  (last.op \in {"create", "render"} /\ MatchesKeyPattern(last.seed)) =>
    \A i \in Evals : HasSeedPrefix(last.log[i].refId, last.seed)

\* an entry of a store is after the step what it was before
SameEntry(before, after, R) ==
  IF R \in DOMAIN before THEN R \in DOMAIN after /\ after[R] = before[R]
  ELSE R \notin DOMAIN after

\* evaluation i of the operation was skipped by memoization: no head function
\* was invoked beneath its position, and the entries of both stores at and
\* below its RefId are what they were
NothingBelowSkip(i) ==
  /\ \A j \in 1..Len(last'.log) :
       last'.log[j].e = "invoke" => ~Beneath(last'.log[j].pos, last'.log[i].pos)
  /\ \A R \in DOMAIN cfgs' \cup DOMAIN tree' :
       HasSeedPrefix(R, last'.log[i].refId) =>
         SameEntry(cfgs, cfgs', R) /\ SameEntry(tree, tree', R)

\* C26: a memoization skip at RefId R changes nothing below R.  When
\* shouldUpdate returns false for the expression at R, leaf constructor or
\* component function, no head function at a descendant position of R is
\* invoked during the evaluation, and no entry of the memoization store or of
\* the tree-value store at or below R is modified.
SkipChangesNothingBelow ==
  [][CallStep =>
       \A i \in EvalsOf(last'.log) : ~last'.log[i].called => NothingBelowSkip(i)]_vars

\* C27: store/tree consistency.  For every RefId R of the committed tree the
\* value the tree-value store holds for R is the object at R's position in the
\* committed tree, the one reachable through the children of its ancestors.
StoreMatchesTree ==
  \A n \in Committed :
    (isVnode(heap, n) /\ heap[n.id].refId # <<>>) =>
      getTreeValue(St, heap[n.id].refId[1]) = n

\* the model is stored in the registry of the root under some key
StoredUnder(root, model) ==
  /\ root \in DOMAIN registry
  /\ \E K \in DOMAIN registry[root] : registry[root][K] = model

\* C28: no orphaned watchers.  Any model that still has a watcher attached
\* for some RefId is the model stored in the registry of the root of that
\* RefId under its key: tearing down one of two nodes that use the same key
\* under one root does not delete the model the other is still watching.
NoOrphanedWatchers ==
  \A m \in 1..Len(atoms) :
    \A i \in 1..Len(atoms[m].watchersList) :
      StoredUnder(PathRoot(atoms[m].watchersList[i].id), m)

\* no model has a watcher attached
NoWatcherLeft(a) == \A m \in 1..Len(a) : a[m].watchersList = <<>>

\* C29: teardown never fails.  Whatever nodes under one root called useModel,
\* several of them with one key and shouldCleanup true included, and in
\* whatever order their destroy callbacks fire, each callback completes
\* without raising, and when all of them have fired no watcher that those
\* nodes registered remains attached.
TeardownNeverFails ==
  [][\A h \in hooks :
       DestroyStep(h) =>
         /\ last'.err = <<>>
         /\ (\A g \in hooks' : g.fired) => NoWatcherLeft(atoms')]_vars

====
